---------------------------- MODULE Spec2Model ----------------------------
(***************************************************************************)
(* A model of mchain: the block ledger of src/src/app.rs (hashing, mining, *)
(* block and chain validation, fork choice) and the event loop of          *)
(* src/src/main.rs that owns one App.                                      *)
(*                                                                         *)
(* A Rust String is a sequence of one-character strings, a Vec<u8> is a    *)
(* sequence of numbers in 0..255.  A panic (expect, unwrap, panic!) is an  *)
(* outcome of its own, "panic": it is neither true nor false.              *)
(***************************************************************************)
EXTENDS Integers, Sequences, FiniteSets, TLC

(***************************************************************************)
(* Bounds of the model.                                                    *)
(***************************************************************************)
\* the ledger and the chains handed to choose_chain hold at most MaxChain blocks
MaxChain == 3
\* Utc::now().timestamp() reads a clock value in 0..MaxTs
MaxTs == 1
\* nonces of hand-made candidate blocks range over 0..MaxNonce
MaxNonce == 3

Timestamps == 0..MaxTs
Nonces == 0..MaxNonce
\* message payloads (Vec<u8>): the empty payload and "hi"
Payloads == {<< >>, <<104, 105>>}

(***************************************************************************)
(* Characters and strings.                                                 *)
(***************************************************************************)
\* the byte of every character the model writes (str::as_bytes)
ASCII ==
    [c \in {"0","1","2","3","4","5","6","7","8","9"} |->
        CASE c = "0" -> 48 [] c = "1" -> 49 [] c = "2" -> 50 [] c = "3" -> 51
          [] c = "4" -> 52 [] c = "5" -> 53 [] c = "6" -> 54 [] c = "7" -> 55
          [] c = "8" -> 56 [] c = "9" -> 57]
    @@ ("a" :> 97) @@ ("b" :> 98) @@ ("c" :> 99) @@ ("d" :> 100)
    @@ ("e" :> 101) @@ ("f" :> 102) @@ ("g" :> 103) @@ ("h" :> 104)
    @@ ("i" :> 105) @@ ("n" :> 110) @@ ("s" :> 115) @@ ("z" :> 122)
    @@ ("A" :> 65) @@ ("B" :> 66) @@ ("C" :> 67) @@ ("D" :> 68)
    @@ ("E" :> 69) @@ ("F" :> 70)
    @@ ("," :> 44)

\* str::starts_with
starts_with(s, prefix) ==
    /\ Len(s) >= Len(prefix)
    /\ SubSeq(s, 1, Len(prefix)) = prefix

DIFFICULTY_PREFIX == <<"0", "0">>

\* the sentinel previous_hash of the genesis block
GENESIS_PREVIOUS_HASH == <<"g", "e", "n", "e", "s", "i", "s">>

(***************************************************************************)
(* hex::encode and hex::decode.                                            *)
(***************************************************************************)
HEX_CHARS_LOWER ==
    <<"0","1","2","3","4","5","6","7","8","9","a","b","c","d","e","f">>

RECURSIVE hex_encode(_)
hex_encode(bytes) ==
    IF bytes = << >> THEN << >>
    ELSE <<HEX_CHARS_LOWER[(Head(bytes) \div 16) + 1],
           HEX_CHARS_LOWER[(Head(bytes) % 16) + 1]>> \o hex_encode(Tail(bytes))

\* hex's val(): the value of one hexadecimal digit, upper or lower case;
\* -1 stands for FromHexError::InvalidHexCharacter
hex_val(c) ==
    LET a == ASCII[c] IN
    IF a >= 48 /\ a <= 57 THEN a - 48
    ELSE IF a >= 97 /\ a <= 102 THEN a - 87
    ELSE IF a >= 65 /\ a <= 70 THEN a - 55
    ELSE -1

\* hex::decode(s) is Ok: an even number of characters, each a hex digit
hex_decode_ok(s) ==
    /\ Len(s) % 2 = 0
    /\ \A i \in 1..Len(s) : hex_val(s[i]) >= 0

\* the bytes of hex::decode(s) when it is Ok
hex_decode(s) ==
    [i \in 1..(Len(s) \div 2) |-> 16 * hex_val(s[2 * i - 1]) + hex_val(s[2 * i])]

(***************************************************************************)
(* hash_to_binary_representation: each byte's binary digits, unpadded.     *)
(***************************************************************************)
\* format!("{:08b}", c): the eight binary digits of a byte, zero padded
format_b_padded(c) ==
    [i \in 1..8 |-> HEX_CHARS_LOWER[((c \div (2 ^ (8 - i))) % 2) + 1]]

\* format!("{:b}", c)
RECURSIVE format_b(_)
format_b(c) ==
    IF c < 2 THEN <<HEX_CHARS_LOWER[c + 1]>>
    ELSE format_b(c \div 2) \o <<HEX_CHARS_LOWER[(c % 2) + 1]>>

RECURSIVE hash_to_binary_representation(_)
hash_to_binary_representation(hash) ==
    IF hash = << >> THEN << >>
    ELSE format_b(Head(hash)) \o hash_to_binary_representation(Tail(hash))

(***************************************************************************)
(* calculate_hash: SHA-256 of the JSON text of the four hashed fields.     *)
(***************************************************************************)
\* an unsigned number in decimal digits, as serde_json writes it
RECURSIVE decimal(_)
decimal(n) ==
    IF n < 10 THEN <<HEX_CHARS_LOWER[n + 1]>>
    ELSE decimal(n \div 10) \o <<HEX_CHARS_LOWER[(n % 10) + 1]>>

\* the elements of a JSON array of numbers, comma separated
RECURSIVE json_elements(_)
json_elements(data) ==
    IF data = << >> THEN << >>
    ELSE IF Len(data) = 1 THEN decimal(data[1])
    ELSE decimal(Head(data)) \o <<",">> \o json_elements(Tail(data))

\* serde_json::json!({...}).to_string(), keys in the order the macro writes
\* them (no property of the model depends on the order of the keys).  The
\* text between two field values is one symbol of the sequence.
json_to_string(timestamp, previous_hash, data, nonce) ==
    <<"{\"previous_hash\":\"">> \o previous_hash
    \o <<"\",\"data\":[">> \o json_elements(data)
    \o <<"],\"timestamp\":">> \o decimal(timestamp)
    \o <<",\"nonce\":">> \o decimal(nonce)
    \o <<"}">>

\* the number the digest reads for each symbol of a text: a character's byte,
\* and a number of its own for each piece of JSON text between the values
Code ==
    ASCII @@ ("{\"previous_hash\":\"" :> 1) @@ ("\",\"data\":[" :> 2)
          @@ ("],\"timestamp\":" :> 3) @@ (",\"nonce\":" :> 4) @@ ("}" :> 125)

\* The digest stands for SHA-256.  It is the input read as a number in base
\* HashMul, modulo HashMod, written out as four bytes; the first two bytes
\* are one bit each, so one digest in four meets the difficulty prefix and
\* the nonce search ends after a few steps.
HashMul == 131
HashMod == 32768

\* HashMul^1 .. HashMul^n modulo HashMod, n a power of two
RECURSIVE hash_powers(_)
hash_powers(n) ==
    IF n = 1 THEN <<HashMul>>
    ELSE LET half == hash_powers(n \div 2)
             top == half[Len(half)]
         IN  half \o [i \in 1..Len(half) |-> (half[i] * top) % HashMod]

HashPowers == hash_powers(64)

\* the symbols lo..hi of text as a number in base HashMul, modulo HashMod
RECURSIVE hash_poly(_, _, _)
hash_poly(text, lo, hi) ==
    IF lo > hi THEN 0
    ELSE IF lo = hi THEN Code[text[lo]]
    ELSE LET mid == (lo + hi) \div 2 IN
         (hash_poly(text, lo, mid) * HashPowers[hi - mid]
            + hash_poly(text, mid + 1, hi)) % HashMod

Sha256(text) ==
    LET h == hash_poly(text, 1, Len(text)) IN
    <<h % 2, (h \div 2) % 2, (h \div 4) % 256, h \div 1024>>

calculate_hash(timestamp, previous_hash, data, nonce) ==
    Sha256(json_to_string(timestamp, previous_hash, data, nonce))

(***************************************************************************)
(* mine_block and Block::new.                                              *)
(***************************************************************************)
\* the loop of mine_block from a given nonce: <<nonce, hex hash>>
RECURSIVE mine_from(_, _, _, _)
mine_from(nonce, timestamp, previous_hash, data) ==
    LET hash == calculate_hash(timestamp, previous_hash, data, nonce)
        binary_hash == hash_to_binary_representation(hash)
    IN  IF starts_with(binary_hash, DIFFICULTY_PREFIX)
        THEN <<nonce, hex_encode(hash)>>
        ELSE mine_from(nonce + 1, timestamp, previous_hash, data)

\* mine_block with the search started at nonce 1
mine_block_from_one(timestamp, previous_hash, data) ==
    mine_from(1, timestamp, previous_hash, data)

mine_block(timestamp, previous_hash, data) ==
    mine_from(0, timestamp, previous_hash, data)

\* Block::new that reads the clock a second time, one second later, for the
\* timestamp it stores
BlockNew_stale(previous_hash, data, now) ==
    LET mined == mine_block(now, previous_hash, data) IN
    [hash |-> mined[2], timestamp |-> now + 1, previous_hash |-> previous_hash,
     data |-> data, nonce |-> mined[1]]

\* Block::new, with now the clock value it reads
BlockNew(previous_hash, data, now) ==
    LET mined == mine_block(now, previous_hash, data) IN
    [hash |-> mined[2], timestamp |-> now, previous_hash |-> previous_hash,
     data |-> data, nonce |-> mined[1]]

(***************************************************************************)
(* App: genesis, is_block_valid, is_chain_valid, choose_chain.             *)
(***************************************************************************)
\* the hash literal of the genesis block, cut to the width of the digest
GENESIS_HASH == <<"0", "0", "0", "0", "f", "8", "1", "6">>
GENESIS_NONCE == 2836

\* the block genesis() builds, with now the clock value it reads
GenesisBlock(now) ==
    [hash |-> GENESIS_HASH, timestamp |-> now,
     previous_hash |-> GENESIS_PREVIOUS_HASH, data |-> << >>,
     nonce |-> GENESIS_NONCE]

\* is_block_valid without its first check (the link to the previous block)
is_block_valid_unlinked(block, previous_block) ==
    IF ~hex_decode_ok(block.hash) THEN "panic"
    ELSE IF ~starts_with(hash_to_binary_representation(hex_decode(block.hash)),
                         DIFFICULTY_PREFIX) THEN "false"
    ELSE IF hex_encode(calculate_hash(block.timestamp, block.previous_hash,
                                      block.data, block.nonce)) # block.hash
         THEN "false"
    ELSE "true"

\* is_block_valid without its last check (the digest of the fields)
is_block_valid_unsealed(block, previous_block) ==
    IF block.previous_hash # previous_block.hash THEN "false"
    ELSE IF ~hex_decode_ok(block.hash) THEN "panic"
    ELSE IF ~starts_with(hash_to_binary_representation(hex_decode(block.hash)),
                         DIFFICULTY_PREFIX) THEN "false"
    ELSE "true"

\* is_block_valid without its second check (the difficulty prefix)
is_block_valid_unprefixed(block, previous_block) ==
    IF block.previous_hash # previous_block.hash THEN "false"
    ELSE IF ~hex_decode_ok(block.hash) THEN "panic"
    ELSE IF hex_encode(calculate_hash(block.timestamp, block.previous_hash,
                                      block.data, block.nonce)) # block.hash
         THEN "false"
    ELSE "true"

\* "true", "false", or "panic" when expect("can decode from hex") fails
is_block_valid(block, previous_block) ==
    IF block.previous_hash # previous_block.hash THEN "false"
    ELSE IF ~hex_decode_ok(block.hash) THEN "panic"
    ELSE IF ~starts_with(hash_to_binary_representation(hex_decode(block.hash)),
                         DIFFICULTY_PREFIX) THEN "false"
    ELSE IF hex_encode(calculate_hash(block.timestamp, block.previous_hash,
                                      block.data, block.nonce)) # block.hash
         THEN "false"
    ELSE "true"

\* the loop of is_chain_valid from index i (1-based; the first block is skipped)
RECURSIVE chain_valid_from(_, _)
chain_valid_from(chain, i) ==
    IF i > Len(chain) THEN "true"
    ELSE LET r == is_block_valid(chain[i], chain[i - 1]) IN
         IF r = "true" THEN chain_valid_from(chain, i + 1) ELSE r

is_chain_valid(chain) == chain_valid_from(chain, 2)

\* of two valid chains the other way round: remote on a tie
longest_or_remote(local, remote) ==
    IF Len(local) > Len(remote) THEN local ELSE remote

\* of two valid chains: local unless remote is longer
longest(local, remote) ==
    IF Len(local) >= Len(remote) THEN local ELSE remote

\* choose_chain: the two verdicts it computes and its outcome, the chain it
\* returns or a panic (of a validation, or "local and remote chains are both
\* invalid"); a verdict is "none" when a panic came before it
choose_chain(local, remote) ==
    LET is_local_valid == is_chain_valid(local)
        is_remote_valid == is_chain_valid(remote)
        result(outcome, chain) ==
            [is_local_valid |-> is_local_valid,
             is_remote_valid |-> is_remote_valid,
             outcome |-> outcome, chain |-> chain]
    IN  IF is_local_valid = "panic"
        THEN [is_local_valid |-> "panic", is_remote_valid |-> "none",
              outcome |-> "panic", chain |-> << >>]
        ELSE IF is_remote_valid = "panic" THEN result("panic", << >>)
        ELSE IF is_local_valid = "true" /\ is_remote_valid = "true"
        THEN result("returned", longest(local, remote))
        ELSE IF is_remote_valid = "true" /\ is_local_valid # "true"
        THEN result("returned", remote)
        ELSE IF is_remote_valid # "true" /\ is_local_valid = "true"
        THEN result("returned", local)
        ELSE result("panic", << >>)

(***************************************************************************)
(* Candidate blocks: what a caller may hand to try_add_block.              *)
(***************************************************************************)
\* a block sealed with a given nonce: its hash is the digest of its fields
Sealed(previous_hash, data, now, nonce) ==
    [hash |-> hex_encode(calculate_hash(now, previous_hash, data, nonce)),
     timestamp |-> now, previous_hash |-> previous_hash, data |-> data,
     nonce |-> nonce]

\* hashes that are no digest of the block: odd length, not hexadecimal,
\* upper-case hexadecimal, well-formed with and without the prefix
ForgedHashes ==
    {<<"0">>, <<"z", "z">>, <<"0", "0", "0", "0", "A", "B", "C", "D">>,
     GENESIS_HASH, <<"f", "f", "0", "0", "0", "0", "0", "0">>}

OtherPreviousHashes == {GENESIS_PREVIOUS_HASH, <<"0", "0", "0", "0", "0", "0", "0", "0">>}

\* every block that differs from b in exactly one field
Tamperings(b) ==
    ({[b EXCEPT !.hash = h] : h \in ForgedHashes}
     \cup {[b EXCEPT !.previous_hash = p] : p \in OtherPreviousHashes}
     \cup {[b EXCEPT !.timestamp = t] : t \in Timestamps \cup {MaxTs + 1}}
     \cup {[b EXCEPT !.data = d] : d \in Payloads \cup {<<0>>}}
     \cup {[b EXCEPT !.nonce = n] : n \in Nonces \cup {MaxNonce + 1}}) \ {b}

Mined(previous_hash) ==
    {BlockNew(previous_hash, d, t) : d \in Payloads, t \in Timestamps}

\* the hashes a sender may believe to be the tip: every block of the ledger
\* and two hashes that are in no ledger
Parents(ledger) ==
    {ledger[i].hash : i \in 1..Len(ledger)} \cup OtherPreviousHashes

\* the candidates offered to a ledger whose last hash is tip: blocks sealed on
\* the tip with any nonce, blocks mined on another parent, tamperings of the
\* blocks mined on the tip, and blocks with both a forged hash and another
\* parent
Candidates(ledger, tip) ==
    {Sealed(tip, d, t, n) : d \in Payloads, t \in Timestamps, n \in Nonces}
    \cup UNION {Mined(p) : p \in Parents(ledger)}
    \cup UNION {Tamperings(b) : b \in Mined(tip)}
    \cup {[b EXCEPT !.hash = h, !.previous_hash = p] :
            b \in Mined(tip), h \in {<<"0">>, <<"z", "z">>},
            p \in OtherPreviousHashes}

(***************************************************************************)
(* State.                                                                  *)
(***************************************************************************)
VARIABLES
    blocks,         \* app.blocks, the ledger
    status,         \* "running", "panicked" (a panic unwound main), "exited"
    call,           \* the last call of an App method and what it saw
    genesis_calls,  \* how many times genesis() has run
    view,           \* the peers of floodsub's partial view
    published,      \* how many stdin lines were published
    stored,         \* how many documents the collection holds
    mined,          \* the block the message handler built, until the next event
    event,          \* the event the loop handled last and what it saw
    fork,           \* a call of choose_chain: its arguments and its result
    digest          \* a call of hash_to_binary_representation

app_vars == <<blocks, status, call, genesis_calls>>
node_vars == <<view, published, stored, mined, event>>
vars == <<app_vars, node_vars, fork, digest>>

NoBlock ==
    [hash |-> << >>, timestamp |-> 0, previous_hash |-> << >>, data |-> << >>,
     nonce |-> 0]

NoCall == [op |-> "none", block |-> NoBlock, before |-> << >>, valid |-> "none"]

\* the loop has handled no event yet
NoEvent == [name |-> "none", before |-> << >>, insert |-> "none"]

\* no call of choose_chain is under way
NoFork ==
    [local |-> << >>, remote |-> << >>, is_local_valid |-> "none",
     is_remote_valid |-> "none", outcome |-> "none", chain |-> << >>,
     self_blocks |-> << >>]

\* no call of hash_to_binary_representation is under way
NoDigest == [hash |-> << >>, res |-> << >>, outcome |-> "none"]

Last(s) == s[Len(s)]

(***************************************************************************)
(* App::new, App::genesis, App::try_add_block.                             *)
(***************************************************************************)
AppNew == << >>

\* genesis() that starts the ledger again from its block
genesis_reset(ledger, now) == <<GenesisBlock(now)>>

genesis(ledger, now) == Append(ledger, GenesisBlock(now))

\* try_add_block that pushes the block whatever is_block_valid returns
try_add_block_unchecked(ledger, block) ==
    IF ledger = << >>
    THEN [blocks |-> ledger, panicked |-> TRUE, valid |-> "none"]
    ELSE LET valid == is_block_valid(block, Last(ledger)) IN
         IF valid = "panic"
         THEN [blocks |-> ledger, panicked |-> TRUE, valid |-> valid]
         ELSE [blocks |-> Append(ledger, block), panicked |-> FALSE,
               valid |-> valid]

\* try_add_block on a ledger: the ledger afterwards, whether the call
\* panicked, and what is_block_valid returned ("none": it was not reached)
try_add_block(ledger, block) ==
    IF ledger = << >>
    THEN [blocks |-> ledger, panicked |-> TRUE, valid |-> "none"]
    ELSE LET latest_block == Last(ledger)
             valid == is_block_valid(block, latest_block)
         IN  IF valid = "panic"
             THEN [blocks |-> ledger, panicked |-> TRUE, valid |-> valid]
             ELSE IF valid = "true"
             THEN [blocks |-> Append(ledger, block), panicked |-> FALSE,
                   valid |-> valid]
             ELSE [blocks |-> ledger, panicked |-> FALSE, valid |-> valid]

Init ==
    /\ blocks = AppNew
    /\ status = "running"
    /\ call = NoCall
    /\ genesis_calls = 0
    /\ view = {}
    /\ published = 0
    /\ stored = 0
    /\ mined = NoBlock
    /\ event = NoEvent
    /\ fork = NoFork
    /\ digest = NoDigest

\* A caller makes one call at a time: call holds the call that has just run
\* until it returns to the caller.
Genesis(now) ==
    /\ status = "running"
    /\ call = NoCall
    /\ Len(blocks) < MaxChain
    /\ blocks' = genesis(blocks, now)
    /\ call' = [op |-> "genesis", block |-> GenesisBlock(now),
                before |-> blocks, valid |-> "none"]
    /\ genesis_calls' = genesis_calls + 1
    /\ UNCHANGED <<status, node_vars, fork, digest>>

\* try_add_block with any candidate a caller may hold
TryAddBlock ==
    /\ status = "running"
    /\ call = NoCall
    /\ Len(blocks) < MaxChain
    /\ \E block \in Candidates(blocks, IF blocks = << >> THEN GENESIS_HASH
                                        ELSE Last(blocks).hash) :
       \E r \in {try_add_block(blocks, block)} :
        /\ blocks' = r.blocks
        /\ status' = IF r.panicked THEN "panicked" ELSE status
        /\ call' = [op |-> "try_add_block", block |-> block,
                    before |-> blocks, valid |-> r.valid]
    /\ UNCHANGED <<genesis_calls, node_vars, fork, digest>>

\* the call returns to its caller, which may make the next one
Return ==
    /\ status = "running"
    /\ call # NoCall
    /\ call' = NoCall
    /\ UNCHANGED <<blocks, status, genesis_calls, node_vars, fork, digest>>

Next ==
    \/ \E now \in Timestamps : Genesis(now)
    \/ TryAddBlock
    \/ Return

Spec == Init /\ [][Next]_vars

(***************************************************************************)
(* Claims about the append path.                                           *)
(***************************************************************************)
\* C1: try_add_block on a non-empty ledger appends the candidate, leaving the
\* earlier blocks as they were, when is_block_valid holds of it and the last
\* block; otherwise the ledger is exactly what it was.
C1_AppendOrUnchanged ==
    (call.op = "try_add_block" /\ call.before # << >>) =>
        IF is_block_valid(call.block, Last(call.before)) = "true"
        THEN /\ blocks = Append(call.before, call.block)
             /\ Len(blocks) = Len(call.before) + 1
             /\ \A i \in 1..Len(call.before) : blocks[i] = call.before[i]
        ELSE blocks = call.before

C1_Witness ==
    /\ call.op = "try_add_block"
    /\ Len(call.before) >= 2
    /\ call.valid = "true"
    /\ Last(blocks) = call.block

\* C2: after one genesis() on the empty ledger and any try_add_block calls,
\* every block but the first names its predecessor's hash, and
\* is_chain_valid of the ledger is true.
C2_LinkedAndValid ==
    genesis_calls = 1 =>
        /\ \A i \in 2..Len(blocks) : blocks[i].previous_hash = blocks[i - 1].hash
        /\ is_chain_valid(blocks) = "true"

C2_Witness ==
    /\ genesis_calls = 1
    /\ Len(blocks) >= 3
    /\ call.op = "try_add_block"

\* C4: a candidate whose hash is not well-formed hexadecimal (odd length or
\* a character that is no hex digit) is rejected: is_block_valid returns
\* false, the ledger is unchanged and nothing panics.
C4_MalformedHashRejected ==
    (/\ call.op = "try_add_block"
     /\ call.before # << >>
     /\ ~hex_decode_ok(call.block.hash)) =>
        /\ call.valid = "false"
        /\ blocks = call.before
        /\ status = "running"

(***************************************************************************)
(* Claims about mining and block validation.                               *)
(***************************************************************************)
\* the difficulty check on the digest of four fields
meets_difficulty(timestamp, previous_hash, data, nonce) ==
    starts_with(hash_to_binary_representation(
                    calculate_hash(timestamp, previous_hash, data, nonce)),
                DIFFICULTY_PREFIX)

\* the three checks of is_block_valid, each on its own
is_linked(block, previous_block) == block.previous_hash = previous_block.hash

is_prefixed(block) ==
    /\ hex_decode_ok(block.hash)
    /\ starts_with(hash_to_binary_representation(hex_decode(block.hash)),
                   DIFFICULTY_PREFIX)

is_sealed(block) ==
    hex_encode(calculate_hash(block.timestamp, block.previous_hash,
                              block.data, block.nonce)) = block.hash

\* the blocks a new block is mined on: the last block of the ledger and the
\* candidate of the call, whatever its hash
Predecessors == {Last(call.before), call.block}

\* C13: for every block P, payload d and clock value, the block
\* B = Block::new(P.hash, d) names P's hash, has a hash with the difficulty
\* prefix that is the digest of its own fields, and is_block_valid(B, P) is
\* true.  (P is the last block or the candidate of a call, d and the clock
\* value are the candidate's.)
C13_MinedBlockValid ==
    (call.op = "try_add_block" /\ call.before # << >>) =>
        \A P \in Predecessors :
            \E B \in {BlockNew(P.hash, call.block.data, call.block.timestamp)} :
                /\ is_linked(B, P)
                /\ is_prefixed(B)
                /\ is_sealed(B)
                /\ is_block_valid(B, P) = "true"

C13_Witness ==
    /\ call.op = "try_add_block"
    /\ Len(call.before) >= 2
    /\ call.block.nonce >= 1
    /\ call.block = BlockNew(Last(call.before).hash, call.block.data,
                             call.block.timestamp)
    /\ blocks = Append(call.before, call.block)

\* C14: mine_block returns the least nonce whose digest has the difficulty
\* prefix, with the hex of that digest; no smaller nonce has the prefix, and
\* the search ends whenever some nonce has it.  (The search is for the
\* candidate's payload and clock value on the last block's hash.)
C14_LeastNonce ==
    (call.op = "try_add_block" /\ call.before # << >>) =>
        \E previous_hash \in {Last(call.before).hash},
           d \in {call.block.data}, t \in {call.block.timestamp} :
            \E m \in {mine_block(t, previous_hash, d)} :
                /\ m[1] \in Nat
                /\ meets_difficulty(t, previous_hash, d, m[1])
                /\ m[2] = hex_encode(calculate_hash(t, previous_hash, d, m[1]))
                /\ \A nonce \in 0..(m[1] - 1) :
                        ~meets_difficulty(t, previous_hash, d, nonce)

C14_Witness ==
    /\ call.op = "try_add_block"
    /\ call.before # << >>
    /\ call.block.nonce >= 2
    /\ <<call.block.nonce, call.block.hash>> =
            mine_block(call.block.timestamp, Last(call.before).hash,
                       call.block.data)
    /\ call.valid = "true"

\* the blocks that differ from b in every field but the hash
SameHash(b) ==
    {[b EXCEPT !.timestamp = b.timestamp + 1],
     [b EXCEPT !.data = <<0>>],
     [b EXCEPT !.nonce = b.nonce + 1],
     [b EXCEPT !.previous_hash = <<"0">>],
     [hash |-> b.hash, timestamp |-> b.timestamp + 1,
      previous_hash |-> <<"0">>, data |-> <<0>>, nonce |-> b.nonce + 1]}

\* C15: is_block_valid(candidate, predecessor) is true if and only if the
\* candidate names the predecessor's hash, its decoded hash has the
\* difficulty prefix, and its hash is the hex digest of its own fields; the
\* fields of the predecessor other than hash do not change the result.
C15_ValidIffThreeChecks ==
    (call.op = "try_add_block" /\ call.before # << >>) =>
        /\ (call.valid = "true") <=>
                (/\ is_linked(call.block, Last(call.before))
                 /\ is_prefixed(call.block)
                 /\ is_sealed(call.block))
        /\ call.valid = is_block_valid(call.block, Last(call.before))
        /\ \A p \in SameHash(Last(call.before)) :
                is_block_valid(call.block, p) = call.valid

C15_Witness ==
    /\ call.op = "try_add_block"
    /\ Len(call.before) >= 2
    /\ is_linked(call.block, Last(call.before))
    /\ is_prefixed(call.block)
    /\ ~is_sealed(call.block)
    /\ call.valid = "false"
    /\ blocks = call.before

\* C16: the ledger only grows at its end: in every step, the ledger before
\* is a prefix of the ledger after, so no accepted block is ever removed,
\* changed or moved.
C16_AppendOnly ==
    [][/\ Len(blocks') >= Len(blocks)
       /\ SubSeq(blocks', 1, Len(blocks)) = blocks]_vars

C16_Witness ==
    /\ Len(blocks) = MaxChain
    /\ call.op = "try_add_block"
    /\ call.valid = "true"
    /\ genesis_calls >= 1
    /\ \A i \in 1..Len(call.before) : blocks[i] = call.before[i]

(***************************************************************************)
(* choose_chain, applied once to a pair of chains.                         *)
(***************************************************************************)
\* the chains a node mines in one second, the first or the last of the
\* clock: genesis(), then Block::new on the last block for each payload of a
\* sequence
RECURSIVE ChainsOfLen(_)
ChainsOfLen(n) ==
    IF n = 0 THEN {<< >>}
    ELSE IF n = 1 THEN {<<GenesisBlock(t)>> : t \in {0, MaxTs}}
    ELSE {Append(c, BlockNew(Last(c).hash, d, c[1].timestamp)) :
            c \in ChainsOfLen(n - 1), d \in Payloads}

MinedChains == UNION {ChainsOfLen(n) : n \in 0..MaxChain}

\* the values a tampered field takes
TamperedFields(b) ==
    ({[b EXCEPT !.hash = h] : h \in ForgedHashes}
     \cup {[b EXCEPT !.previous_hash = p] : p \in OtherPreviousHashes}
     \cup {[b EXCEPT !.timestamp = MaxTs + 1], [b EXCEPT !.data = <<0>>],
           [b EXCEPT !.nonce = b.nonce + 1]}) \ {b}

\* every chain that differs from c in exactly one field of block i
TamperedAt(c, i) == {[c EXCEPT ![i] = b] : b \in TamperedFields(c[i])}

TamperedChains(c) == UNION {TamperedAt(c, i) : i \in 1..Len(c)}

ChainInputs == MinedChains \cup UNION {TamperedChains(c) : c \in MinedChains}

\* the pairs choose_chain is applied to: a mined chain against any chain,
\* either way round, and two tamperings of one mined chain
ForkInputs ==
    (MinedChains \X ChainInputs) \cup (ChainInputs \X MinedChains)
    \cup UNION {TamperedChains(c) \X TamperedChains(c) : c \in MinedChains}

\* the calls of choose_chain: <<local, remote, self.blocks>>.  The App it is
\* called on holds no block yet or, when both chains are mined ones, holds
\* either of them
ForkCalls ==
    {<<pair[1], pair[2], AppNew>> : pair \in ForkInputs}
    \cup {<<local, remote, local>> : local \in MinedChains, remote \in MinedChains}
    \cup {<<local, remote, remote>> : local \in MinedChains, remote \in MinedChains}

ForkInit ==
    /\ status = "running"
    /\ call = NoCall
    /\ view = {}
    /\ published = 0
    /\ stored = 0
    /\ mined = NoBlock
    /\ event = NoEvent
    /\ digest = NoDigest
    /\ \E c \in ForkCalls :
        /\ blocks = c[3]
        /\ genesis_calls = IF c[3] = << >> THEN 0 ELSE 1
        /\ fork = [NoFork EXCEPT !.local = c[1], !.remote = c[2],
                                 !.outcome = "pending", !.self_blocks = c[3]]

\* choose_chain that installs the chain it returns as the App's ledger
ChooseChain_replacing ==
    /\ status = "running"
    /\ fork.outcome = "pending"
    /\ \E r \in {choose_chain(fork.local, fork.remote)} :
        /\ fork' = [fork EXCEPT !.is_local_valid = r.is_local_valid,
                                !.is_remote_valid = r.is_remote_valid,
                                !.outcome = r.outcome, !.chain = r.chain]
        /\ status' = IF r.outcome = "panic" THEN "panicked" ELSE status
        /\ blocks' = IF r.outcome = "returned" THEN r.chain ELSE blocks
    /\ UNCHANGED <<call, genesis_calls, node_vars, digest>>

\* self.choose_chain(local, remote): self.blocks is neither read nor written
ChooseChain ==
    /\ status = "running"
    /\ fork.outcome = "pending"
    /\ \E r \in {choose_chain(fork.local, fork.remote)} :
        /\ fork' = [fork EXCEPT !.is_local_valid = r.is_local_valid,
                                !.is_remote_valid = r.is_remote_valid,
                                !.outcome = r.outcome, !.chain = r.chain]
        /\ status' = IF r.outcome = "panic" THEN "panicked" ELSE status
    /\ UNCHANGED <<blocks, call, genesis_calls, node_vars, digest>>

ForkNext == ChooseChain

ForkSpec == ForkInit /\ [][ForkNext]_vars

(***************************************************************************)
(* Claims about fork choice.                                               *)
(***************************************************************************)
ForkDone == fork.outcome \in {"returned", "panic"}

BlockFields == {"hash", "previous_hash", "timestamp", "data", "nonce"}

\* the fields in which two blocks differ
DiffFields(b1, b2) == {f \in BlockFields : b1[f] # b2[f]}

\* tampered is chain c with exactly one field of block i changed
TamperedOnlyAt(tampered, c, i) ==
    /\ Len(tampered) = Len(c)
    /\ i \in 1..Len(c)
    /\ \A j \in 1..Len(c) : j # i => tampered[j] = c[j]
    /\ Cardinality(DiffFields(tampered[i], c[i])) = 1

\* C5: when both chains pass is_chain_valid, choose_chain returns remote if
\* remote is strictly longer than local and local otherwise.
C5_LongerValidWins ==
    (/\ ForkDone
     /\ is_chain_valid(fork.local) = "true"
     /\ is_chain_valid(fork.remote) = "true") =>
        /\ fork.outcome = "returned"
        /\ fork.chain = IF Len(fork.remote) > Len(fork.local)
                        THEN fork.remote ELSE fork.local

C5_Witness ==
    /\ fork.outcome = "returned"
    /\ fork.is_local_valid = "true"
    /\ fork.is_remote_valid = "true"
    /\ Len(fork.local) = Len(fork.remote)
    /\ Len(fork.local) >= 2
    /\ fork.local # fork.remote
    /\ fork.chain = fork.local

\* C6: when exactly one of the two chains passes is_chain_valid, choose_chain
\* returns that chain, whatever the two lengths.
C6_OnlyValidWins ==
    (/\ ForkDone
     /\ (is_chain_valid(fork.local) = "true") # (is_chain_valid(fork.remote) = "true")) =>
        /\ fork.outcome = "returned"
        /\ fork.chain = IF is_chain_valid(fork.local) = "true"
                        THEN fork.local ELSE fork.remote

\* C7: when both chains fail is_chain_valid, choose_chain returns neither and
\* reports the state to its caller; the process is not aborted.
C7_BothInvalidReported ==
    (/\ ForkDone
     /\ is_chain_valid(fork.local) # "true"
     /\ is_chain_valid(fork.remote) # "true") =>
        /\ fork.outcome # "panic"
        /\ fork.outcome # "returned"
        /\ status = "running"

\* C8: choose_chain(A, A) returns A, for every chain A.
C8_SameChainReturned ==
    (ForkDone /\ fork.local = fork.remote) =>
        /\ fork.outcome = "returned"
        /\ fork.chain = fork.local

\* C9 as claimed: in a chain of two or more blocks that passes
\* is_chain_valid, changing one field of a block that is not the last one,
\* the first block included, makes is_chain_valid return false.
C9_AnyTamperingDetected ==
    (/\ ForkDone
     /\ Len(fork.local) >= 2
     /\ is_chain_valid(fork.local) = "true"
     /\ \E i \in 1..(Len(fork.local) - 1) :
            TamperedOnlyAt(fork.remote, fork.local, i)) =>
        fork.is_remote_valid = "false"

\* C9 amended: changing the hash of a block that is not the last one, or
\* another field of a block that is neither the first nor the last, makes
\* is_chain_valid reject the chain: it returns false, except that it panics
\* when the new hash of a block after the first is not well-formed hex.
C9_TamperingRejected ==
    \A i \in 1..(Len(fork.local) - 1) :
        (/\ ForkDone
         /\ Len(fork.local) >= 2
         /\ is_chain_valid(fork.local) = "true"
         /\ TamperedOnlyAt(fork.remote, fork.local, i)
         /\ (i > 1 \/ fork.remote[i].hash # fork.local[i].hash)) =>
            fork.is_remote_valid =
                IF i > 1 /\ ~hex_decode_ok(fork.remote[i].hash)
                THEN "panic" ELSE "false"

C9_Witness ==
    /\ ForkDone
    /\ Len(fork.local) >= 3
    /\ fork.is_local_valid = "true"
    /\ TamperedOnlyAt(fork.remote, fork.local, 2)
    /\ fork.remote[2].timestamp # fork.local[2].timestamp
    /\ fork.is_remote_valid = "false"
    /\ fork.chain = fork.local

\* C19: when choose_chain returns, self.blocks is what it was before the
\* call, and the chain returned is one of the two arguments, passes
\* is_chain_valid, and is fixed by the two arguments alone: by the two
\* verdicts choose_chain computed from them and their lengths.
C19_OwnLedgerUntouched ==
    fork.outcome = "returned" =>
        /\ blocks = fork.self_blocks
        /\ fork.chain \in {fork.local, fork.remote}
        /\ is_chain_valid(fork.chain) = "true"
        /\ fork.chain =
                IF fork.is_local_valid # "true" THEN fork.remote
                ELSE IF fork.is_remote_valid # "true" THEN fork.local
                ELSE IF Len(fork.remote) > Len(fork.local) THEN fork.remote
                ELSE fork.local

C19_Witness ==
    /\ fork.outcome = "returned"
    /\ fork.self_blocks = fork.local
    /\ Len(fork.local) >= 1
    /\ fork.chain = fork.remote
    /\ Len(fork.remote) > Len(fork.local)
    /\ blocks = fork.local

(***************************************************************************)
(* hash_to_binary_representation, applied once to a digest.                *)
(***************************************************************************)
\* digests hold at most MaxDigest bytes
MaxDigest == 3

\* the bytes of a digest: zero, one, and bytes of two, seven and eight digits
DigestBytes == {0, 1, 2, 127, 128, 255}

DigestInputs == UNION {[1..n -> DigestBytes] : n \in 0..MaxDigest}

DigestInit ==
    /\ blocks = AppNew
    /\ status = "running"
    /\ call = NoCall
    /\ genesis_calls = 0
    /\ view = {}
    /\ published = 0
    /\ stored = 0
    /\ mined = NoBlock
    /\ event = NoEvent
    /\ fork = NoFork
    /\ \E hash \in DigestInputs :
          digest = [hash |-> hash, res |-> << >>, outcome |-> "pending"]

HashToBinary ==
    /\ digest.outcome = "pending"
    /\ digest' = [digest EXCEPT
                     !.res = hash_to_binary_representation(digest.hash),
                     !.outcome = "returned"]
    /\ UNCHANGED <<app_vars, node_vars, fork>>

DigestNext == HashToBinary

DigestSpec == DigestInit /\ [][DigestNext]_vars

\* C20: for a digest of two bytes or more, hash_to_binary_representation
\* starts with "00" exactly when the first two bytes are both zero: a zero
\* byte writes the one digit "0" and every other byte writes digits that
\* begin with "1".
C20_PrefixIffTwoZeroBytes ==
    (digest.outcome = "returned" /\ Len(digest.hash) >= 2) =>
        /\ starts_with(digest.res, DIFFICULTY_PREFIX) <=>
                (digest.hash[1] = 0 /\ digest.hash[2] = 0)
        /\ \A i \in 1..Len(digest.hash) :
                /\ digest.hash[i] = 0 => format_b(digest.hash[i]) = <<"0">>
                /\ digest.hash[i] # 0 => Head(format_b(digest.hash[i])) = "1"

C20_Witness ==
    /\ digest.outcome = "returned"
    /\ digest.hash = <<0, 0, 255>>
    /\ starts_with(digest.res, DIFFICULTY_PREFIX)
    /\ Len(digest.res) = 10

(***************************************************************************)
(* main: the event loop.  Each arm of select! and of the match is one      *)
(* action; the loop takes the next event only when the arm has returned.   *)
(***************************************************************************)
\* at most MaxIO lines are published and MaxIO documents stored
MaxIO == 2

Peers == {"p1", "p2"}

\* a line of stdin is published to the topic
StdinLine ==
    /\ status = "running"
    /\ published < MaxIO
    /\ published' = published + 1
    /\ event' = [name |-> "stdin", before |-> blocks, insert |-> "none"]
    /\ mined' = NoBlock
    /\ UNCHANGED <<app_vars, view, stored, fork, digest>>

\* reading stdin fails: line.expect("Stdin not to close") panics
StdinError ==
    /\ status = "running"
    /\ status' = "panicked"
    /\ event' = [name |-> "stdin", before |-> blocks, insert |-> "none"]
    /\ mined' = NoBlock
    /\ UNCHANGED <<blocks, call, genesis_calls, view, published, stored, fork,
                   digest>>

\* SwarmEvent::NewListenAddr: one event for each address the listener binds
NewListenAddr(now) ==
    /\ status = "running"
    /\ Len(blocks) < MaxChain
    /\ blocks' = genesis(blocks, now)
    /\ call' = [op |-> "genesis", block |-> GenesisBlock(now),
                before |-> blocks, valid |-> "none"]
    /\ genesis_calls' = genesis_calls + 1
    /\ event' = [name |-> "listen", before |-> blocks, insert |-> "none"]
    /\ mined' = NoBlock
    /\ UNCHANGED <<status, view, published, stored, fork, digest>>

\* the Message handler with a listen-address event handled while it awaits
\* insert_one: genesis() runs between the mining and the end of the handler
Message_interleaved(data, now) ==
    /\ status = "running"
    /\ blocks # << >>
    /\ Len(blocks) < MaxChain
    /\ stored < MaxIO
    /\ mined' = BlockNew(Last(blocks).hash, data, now)
    /\ blocks' = genesis(blocks, now)
    /\ stored' = stored + 1
    /\ event' = [name |-> "message", before |-> blocks, insert |-> "ok"]
    /\ UNCHANGED <<status, call, genesis_calls, view, published, fork, digest>>

\* FloodsubEvent::Message: a block is mined on the last block, then a
\* document is inserted; insert_ok is whether insert_one(...).await is Ok
Message(data, now) ==
    /\ status = "running"
    /\ IF blocks = << >>
       THEN \* app.blocks.last().unwrap() panics
            /\ status' = "panicked"
            /\ event' = [name |-> "message", before |-> blocks,
                         insert |-> "none"]
            /\ mined' = NoBlock
            /\ UNCHANGED stored
       ELSE \E block \in {BlockNew(Last(blocks).hash, data, now)} :
            \E insert_ok \in BOOLEAN :
            /\ mined' = block
            /\ IF insert_ok
               THEN /\ stored < MaxIO
                    /\ stored' = stored + 1
                    /\ event' = [name |-> "message", before |-> blocks,
                                 insert |-> "ok"]
                    /\ UNCHANGED status
               ELSE \* the ? operator returns the error from main
                    /\ status' = "exited"
                    /\ event' = [name |-> "message", before |-> blocks,
                                 insert |-> "error"]
                    /\ UNCHANGED stored
    /\ UNCHANGED <<blocks, call, genesis_calls, view, published, fork, digest>>

\* MdnsEvent::Discovered: every peer of the list joins the partial view
MdnsDiscovered(list) ==
    /\ status = "running"
    /\ view' = view \cup list
    /\ event' = [name |-> "discovered", before |-> blocks, insert |-> "none"]
    /\ mined' = NoBlock
    /\ UNCHANGED <<app_vars, published, stored, fork, digest>>

\* MdnsEvent::Expired: a peer of the list leaves the partial view unless
\* mdns still has it (has_node)
MdnsExpired(list, has_node) ==
    /\ status = "running"
    /\ view' = view \ (list \ has_node)
    /\ event' = [name |-> "expired", before |-> blocks, insert |-> "none"]
    /\ mined' = NoBlock
    /\ UNCHANGED <<app_vars, published, stored, fork, digest>>

\* any other swarm event: the arm _ => {}
OtherEvent ==
    /\ status = "running"
    /\ event' = [name |-> "other", before |-> blocks, insert |-> "none"]
    /\ mined' = NoBlock
    /\ UNCHANGED <<app_vars, view, published, stored, fork, digest>>

NodeNext ==
    \/ StdinLine
    \/ StdinError
    \/ \E now \in Timestamps : NewListenAddr(now)
    \/ \E data \in Payloads, now \in Timestamps : Message(data, now)
    \/ \E list \in SUBSET Peers : MdnsDiscovered(list)
    \/ \E list \in SUBSET Peers, has_node \in SUBSET Peers :
            MdnsExpired(list, has_node)
    \/ OtherEvent

NodeSpec == Init /\ [][NodeNext]_vars

\* C3: the running node creates the genesis block exactly once: the ledger
\* never holds a second block whose previous_hash is "genesis", and the one
\* it holds is the first.
C3_GenesisOnce ==
    /\ genesis_calls <= 1
    /\ \A i \in 1..Len(blocks) :
          blocks[i].previous_hash = GENESIS_PREVIOUS_HASH => i = 1

\* C10: whenever genesis() runs, the hash stored in the genesis block is the
\* hex digest of the block's own fields (a mismatch would stop the start).
C10_GenesisSealed ==
    call.op = "genesis" =>
        call.block.hash =
            hex_encode(calculate_hash(call.block.timestamp,
                                      call.block.previous_hash,
                                      call.block.data, call.block.nonce))

\* C11: a payload message handled on a non-empty ledger appends the block it
\* mines: when the handler has completed, the ledger is one block longer and
\* its last block is the mined block, which carries the payload.
C11_PayloadAppended ==
    (/\ event.name = "message"
     /\ event.before # << >>
     /\ event.insert = "ok") =>
        /\ Len(blocks) = Len(event.before) + 1
        /\ Last(blocks) = mined
        /\ Last(blocks).previous_hash = Last(event.before).hash

\* C12: when insert_one returns an error while a message is handled, the
\* loop keeps running and the ledger is what it was.
C12_InsertFailureTolerated ==
    (event.name = "message" /\ event.insert = "error") =>
        /\ status = "running"
        /\ blocks = event.before

\* C17: each handler runs alone: after a handler the ledger is the ledger it
\* started on with the handler's own mutation only (one genesis block for a
\* listen address, nothing else), and after a message handler the last
\* block is still the block the new block was mined on.
C17_HandlersSerialized ==
    /\ event.name = "listen" =>
            (call.op = "genesis" /\ blocks = Append(event.before, call.block))
    /\ event.name \notin {"none", "listen"} => blocks = event.before
    /\ (event.name = "message" /\ event.before # << >>) =>
            mined.previous_hash = Last(blocks).hash

C17_Witness ==
    /\ event.name = "message"
    /\ event.insert = "ok"
    /\ Len(blocks) >= 2
    /\ mined.data # << >>
    /\ mined.previous_hash = Last(blocks).hash
    /\ status = "running"

\* C18: the ledger is never empty when a handler reads its last block: a
\* message is handled only after genesis() has run, so unwrap() cannot fail.
C18_LedgerNonEmptyWhenRead ==
    event.name = "message" =>
        /\ event.before # << >>
        /\ status # "panicked"

=============================================================================
